---- MODULE Spec2Model ----
(***************************************************************************)
(* A model of cairo_xpm.c: the XPM writer for Cairo image surfaces.        *)
(*                                                                         *)
(* Spec      steps cairo_image_surface_write_to_xpm_mem / _stream / (file) *)
(*           pixel by pixel and line by line over small images, with the   *)
(*           output buffer kept as a sequence of characters.               *)
(* SpecSize  runs the same size arithmetic and the writer's byte counts    *)
(*           over large geometries and palettes, where the 32-bit int      *)
(*           arithmetic of xpm_size() and the 5-byte scratch buffer matter.*)
(***************************************************************************)
EXTENDS Integers, Sequences, FiniteSets, TLC

VARIABLES
  sfc,      \* the surface handed in: [kind, w, h, pix], pix row-major
  other,    \* TRUE when sfc was replaced by a converted RGB24 copy (other != NULL)
  entry,    \* which exported function the caller invoked
  pc,       \* position in the code
  colors,   \* the calloc'ed table, kept sparse: colour key -> index (absent = 0)
  ncols, cpp, xpmsize,
  xbuf,     \* the characters written to xbuf so far (the C string up to pos)
  pos, size, x, y, i,
  data, len,\* *data and *len of the to-memory call
  e,        \* the status variable of the stream function
  wcalls,   \* number of invocations of write_func
  wdata,    \* the bytes handed to write_func
  freed,    \* free(data) executed in the stream function
  file,     \* the file at the target path: [exists, content]
  fdopen,   \* the descriptor returned by open() is open
  closes,   \* number of close() calls
  outfile,  \* the value open() returned (-1: failure)
  mret,     \* status returned by the to-memory function
  cbret,    \* status returned by write_func
  sret,     \* status returned by the stream function
  ret,      \* status returned to the caller
  trans     \* SpecSize only: the palette holds the transparent entry

vars == <<sfc, other, entry, pc, colors, ncols, cpp, xpmsize, xbuf, pos, size,
          x, y, i, data, len, e, wcalls, wdata, freed, file, fdopen, closes,
          outfile, mret, cbret, sret, ret, trans>>

(***************************************************************************)
(* Program constants                                                       *)
(***************************************************************************)
MAX_COL == 16777216
TRANS_THRESH == 128
CB_SIZE == 5

(***************************************************************************)
(* Bounds of the model                                                     *)
(***************************************************************************)
MaxW == 2
MaxH == 2
MaxPixels == 4
MaxGradW == 65
LongLen == 120

(***************************************************************************)
(* 32-bit int arithmetic.  TLC's integers are 32 bits wide themselves, so  *)
(* exact values are kept as three limbs of 15 bits, least significant      *)
(* first; every value that occurs is below 2^45.                           *)
(***************************************************************************)
Base == 2^15

Big(n) == <<n % Base, (n \div Base) % Base, n \div (Base * Base)>>

Norm(r) ==
  LET c1 == r[1] \div Base
      s2 == r[2] + c1
      c2 == s2 \div Base
  IN  <<r[1] % Base, s2 % Base, r[3] + c2>>

BigAdd(a, b) == Norm(<<a[1] + b[1], a[2] + b[2], a[3] + b[3]>>)

BigMul(a, b) ==
  Norm(<<a[1] * b[1],
         a[1] * b[2] + a[2] * b[1],
         a[1] * b[3] + a[2] * b[2] + a[3] * b[1]>>)

BigLE(a, b) ==
  \/ a[3] < b[3]
  \/ a[3] = b[3] /\ a[2] < b[2]
  \/ a[3] = b[3] /\ a[2] = b[2] /\ a[1] <= b[1]

\* the value fits a (non-negative) int: it is below 2^31
FitsInt(a) == a[3] < 2

\* the low 32 bits read as a two's complement int
Wrap32(a) ==
  LET top == a[3] % 4
  IN  (IF top >= 2 THEN top - 4 ELSE top) * (Base * Base) + a[2] * Base + a[1]

(***************************************************************************)
(* Characters                                                              *)
(***************************************************************************)
ctbl ==
  <<"A","B","C","D","E","F","G","H","I","J","K","L","M","N","O","P",
    "Q","R","S","T","U","V","W","X","Y","Z","a","b","c","d","e","f",
    "g","h","i","j","k","l","m","n","o","p","q","r","s","t","u","v",
    "w","x","y","z","0","1","2","3","4","5","6","7","8","9","+","/">>

HexDigits ==
  <<"0","1","2","3","4","5","6","7","8","9","a","b","c","d","e","f">>

DecDigits == <<"0","1","2","3","4","5","6","7","8","9">>

\* printf's %d for a non-negative int
RECURSIVE FmtD(_)
FmtD(n) ==
  IF n < 10 THEN <<DecDigits[n + 1]>>
  ELSE FmtD(n \div 10) \o <<DecDigits[(n % 10) + 1]>>

(***************************************************************************)
(* cairo_image_surface_get_argb24_pixel: the pixel read as an int.  A      *)
(* pixel with alpha byte a and RGB bits rgb is the int below.              *)
(***************************************************************************)
Pixel(a, rgb) == (IF a >= 128 THEN a - 256 ELSE a) * 16777216 + rgb

get_argb24_pixel(s, px, py) == s.pix[py * s.w + px + 1]

\* lines 174-177: the colour key of a pixel value
\* (col >> 24) & 0xff, then MAX_COL or col & 0x00ffffff
PixelKeyLE(col) ==
  IF ((col \div 16777216) % 256) <= TRANS_THRESH THEN MAX_COL
  ELSE col % 16777216

PixelKey(col) ==
  IF ((col \div 16777216) % 256) < TRANS_THRESH THEN MAX_COL
  ELSE col % 16777216

\* colors[k] of the zero-initialised table
ColorsAt(tbl, k) == IF k \in DOMAIN tbl THEN tbl[k] ELSE 0

(***************************************************************************)
(* num_chars_per_pixel                                                     *)
(***************************************************************************)
RECURSIVE BitLoop(_, _)
BitLoop(n, bpc) == IF n = 0 THEN bpc ELSE BitLoop(n \div 2, bpc + 1)

num_chars_per_pixel_floor(n0) == BitLoop(n0, 0) \div 6

num_chars_per_pixel_one(n0) ==
  LET bpc == BitLoop(n0, 0)
      n == bpc \div 6
  IN  IF n * 6 <= bpc THEN n + 1 ELSE n

num_chars_per_pixel(n0) ==
  LET bpc == BitLoop(n0, 0)
      n == bpc \div 6
  IN  IF n * 6 < bpc THEN n + 1 ELSE n

(***************************************************************************)
(* col_encode_base64: the cpp characters written before the terminator     *)
(***************************************************************************)
col_encode_base64_lsb(pix, n) ==
  [k \in 1..n |-> ctbl[((pix \div (64 ^ (k - 1))) % 64) + 1]]

col_encode_base64(pix, n) ==
  [k \in 1..n |-> ctbl[((pix \div (64 ^ (n - k))) % 64) + 1]]

\* col_encode_html: snprintf(dst, 7, "%06x", c & 0xffffff)
col_encode_html(c) ==
  LET v == c % 16777216
  IN  [k \in 1..6 |-> HexDigits[((v \div (16 ^ (6 - k))) % 16) + 1]]

(***************************************************************************)
(* xpm_size.  The int expressions overflow for large images, which is      *)
(* undefined: the build either wraps (the usual code) or traps (-ftrapv).  *)
(* The result is a set of outcomes [val, trap].                            *)
(***************************************************************************)
XpmCtbls(nc, n) == BigMul(Big(n + 14), Big(nc))
XpmPtbls(w, h, n) == BigMul(BigAdd(BigMul(Big(w), Big(n)), Big(4)), Big(h))
XpmExact(w, h, nc, n) ==
  BigAdd(BigAdd(XpmCtbls(nc, n), XpmPtbls(w, h, n)), Big(256))

XpmOverflows(w, h, nc, n) ==
  \/ ~FitsInt(BigMul(Big(w), Big(n)))
  \/ ~FitsInt(BigAdd(BigMul(Big(w), Big(n)), Big(4)))
  \/ ~FitsInt(XpmPtbls(w, h, n))
  \/ ~FitsInt(XpmCtbls(nc, n))
  \/ ~FitsInt(BigAdd(XpmCtbls(nc, n), XpmPtbls(w, h, n)))
  \/ ~FitsInt(XpmExact(w, h, nc, n))

xpm_size(w, h, nc, n) ==
  IF XpmOverflows(w, h, nc, n)
  THEN {[val |-> Wrap32(XpmExact(w, h, nc, n)), trap |-> FALSE],
        [val |-> 0, trap |-> TRUE]}
  ELSE {[val |-> Wrap32(XpmExact(w, h, nc, n)), trap |-> FALSE]}

\* malloc(xpmsize): the int converted to size_t covers `need' bytes
AllocCovers(sz, need) == sz < 0 \/ BigLE(need, Big(sz))

(***************************************************************************)
(* The format strings of the writer                                        *)
(***************************************************************************)
\* line 196: "/* XPM */\nstatic char *xpm_c%d_[] = {\n\"%d %d %d %d\""
HeaderText(w, h, nc, n) ==
  <<"/","*"," ","X","P","M"," ","*","/","\n">>
  \o <<"s","t","a","t","i","c"," ","c","h","a","r"," ","*","x","p","m","_","c">>
  \o FmtD(nc)
  \o <<"_","[","]"," ","=" ," ","{","\n","\"">>
  \o FmtD(w) \o <<" ">> \o FmtD(h) \o <<" ">> \o FmtD(nc) \o <<" ">> \o FmtD(n)
  \o <<"\"">>

\* lines 207-212: ",\n\"%s c #%s\"" or ",\n\"%s c None\""
ColorLineText(key, idx, n) ==
  <<",","\n","\"">> \o col_encode_base64(idx - 1, n) \o <<" ","c"," ">>
  \o (IF key < MAX_COL
      THEN <<"#">> \o col_encode_html(key)
      ELSE <<"N","o","n","e">>)
  \o <<"\"">>

RowOpenText == <<",","\n","\"">>
RowCloseText == <<"\"">>
FooterText == <<"\n","}",";","\n">>

\* line 204-205: the next i >= from with colors[i] != 0 (MAX_COL + 1 if none)
NextColorKey(tbl, from) ==
  LET S == {k \in DOMAIN tbl : k >= from /\ tbl[k] # 0}
  IN  IF S = {} THEN MAX_COL + 1
      ELSE CHOOSE k \in S : \A j \in S : k <= j

(***************************************************************************)
(* Surfaces.  A surface of kind "image" is an ARGB32 or RGB24 image; one   *)
(* of kind "other" has to be converted (lines 132-155), and pix is then    *)
(* what cairo_paint() renders into the RGB24 copy.                         *)
(***************************************************************************)
PixelValues ==
  { Pixel(255, 16711680),   \* 0xffff0000 opaque red
    Pixel(128, 255),        \* 0x800000ff blue, alpha at the threshold
    Pixel(255, 255),        \* 0xff0000ff the same blue, opaque
    Pixel(127, 16711680),   \* 0x7fff0000 red bits, alpha just below
    Pixel(16, 255) }        \* 0x100000ff blue bits, nearly transparent

SmallShapes ==
  {s \in (0..MaxW) \X (0..MaxH) : s[1] * s[2] <= MaxPixels}

SmallImages ==
  UNION {[w : {s[1]}, h : {s[2]}, pix : [1..(s[1] * s[2]) -> PixelValues]]
         : s \in SmallShapes}

\* one row of gw opaque pixels of pairwise different colours, in an order
\* that is not the order of the colour values
GradientImage(gw) ==
  [w |-> gw, h |-> 1,
   pix |-> [k \in 1..gw |-> Pixel(255, ((k * 37) % 101) * 1000 + k)]]

GradientImages == {GradientImage(gw) : gw \in (MaxGradW - 2)..MaxGradW}

Surfaces ==
  {[kind |-> kd, w |-> im.w, h |-> im.h, pix |-> im.pix]
     : kd \in {"image", "other"}, im \in SmallImages \cup GradientImages}

Filler(n) == [k \in 1..n |-> "x"]

PriorFiles ==
  {[exists |-> FALSE, content |-> <<>>],
   [exists |-> TRUE, content |-> <<>>],
   [exists |-> TRUE, content |-> Filler(3)],
   [exists |-> TRUE, content |-> Filler(LongLen)]}

NoTable == [k \in {} |-> 0]

Init ==
  /\ sfc \in Surfaces
  /\ other = FALSE
  /\ entry = "none"
  /\ pc = "idle"
  /\ colors = NoTable
  /\ ncols = 0 /\ cpp = 0 /\ xpmsize = 0
  /\ xbuf = <<>> /\ pos = 0 /\ size = 0
  /\ x = 0 /\ y = 0 /\ i = 0
  /\ data = <<>> /\ len = 0
  /\ e = "none"
  /\ wcalls = 0 /\ wdata = <<>> /\ freed = FALSE
  /\ file = [exists |-> FALSE, content |-> <<>>]
  /\ fdopen = FALSE /\ closes = 0 /\ outfile = 0
  /\ mret = "none" /\ cbret = "none" /\ sret = "none" /\ ret = "none"
  /\ trans = FALSE

(***************************************************************************)
(* snprintf(xbuf + pos, size, ...): at most size - 1 characters and the    *)
(* terminator are stored; the return value is the full length.             *)
(***************************************************************************)
Snprintf(text, sz) ==
  IF sz > Len(text) THEN text
  ELSE IF sz <= 1 THEN <<>>
  ELSE SubSeq(text, 1, sz - 1)

\* the statements "cur = snprintf(xbuf + pos, size, text); pos += cur; size -= cur"
Emit(text) ==
  /\ xbuf' = xbuf \o Snprintf(text, size)
  /\ pos' = pos + Len(text)
  /\ size' = size - Len(text)

(***************************************************************************)
(* The three exported functions are entered by the caller.                 *)
(***************************************************************************)
CallMem ==
  /\ pc = "idle"
  /\ entry' = "mem"
  /\ pc' = "m_check"
  /\ UNCHANGED <<sfc, other, colors, ncols, cpp, xpmsize, xbuf, pos, size, x, y,
                 i, data, len, e, wcalls, wdata, freed, file, fdopen, closes,
                 outfile, mret, cbret, sret, ret, trans>>

CallStream ==
  /\ pc = "idle"
  /\ entry' = "stream"
  /\ pc' = "m_check"
  /\ UNCHANGED <<sfc, other, colors, ncols, cpp, xpmsize, xbuf, pos, size, x, y,
                 i, data, len, e, wcalls, wdata, freed, file, fdopen, closes,
                 outfile, mret, cbret, sret, ret, trans>>

\* the file at the target path is whatever the environment left there
CallFile ==
  /\ pc = "idle"
  /\ entry' = "file"
  /\ file' \in PriorFiles
  /\ pc' = "f_open"
  /\ UNCHANGED <<sfc, other, colors, ncols, cpp, xpmsize, xbuf, pos, size, x, y,
                 i, data, len, e, wcalls, wdata, freed, fdopen, closes,
                 outfile, mret, cbret, sret, ret, trans>>

(***************************************************************************)
(* cairo_image_surface_write_to_xpm, lines 315-316:                        *)
(* open(filename, O_WRONLY | O_CREAT, ...) creates a missing file, keeps   *)
(* the content of an existing one, and may fail.                           *)
(***************************************************************************)
FileOpen ==
  /\ pc = "f_open"
  /\ \/ /\ outfile' = 3
        /\ fdopen' = TRUE
        /\ file' = [exists |-> TRUE,
                    content |-> IF file.exists THEN file.content ELSE <<>>]
        /\ pc' = "m_check"
        /\ ret' = ret
     \/ /\ outfile' = -1
        /\ ret' = "DEVICE_ERROR"
        /\ pc' = "done"
        /\ UNCHANGED <<fdopen, file>>
  /\ UNCHANGED <<sfc, other, entry, colors, ncols, cpp, xpmsize, xbuf, pos, size,
                 x, y, i, data, len, e, wcalls, wdata, freed, closes,
                 mret, cbret, sret, trans>>

(***************************************************************************)
(* cairo_image_surface_write_to_xpm_mem                                    *)
(***************************************************************************)
\* "return st" of the to-memory function: back to its caller
MemReturn(st) ==
  /\ mret' = st
  /\ IF entry = "mem"
     THEN /\ ret' = st /\ pc' = "done" /\ e' = e
     ELSE /\ e' = st /\ pc' = "s_check" /\ ret' = ret

\* lines 128-155: *data = NULL, *len = 0, the format check and the conversion
MemCheck ==
  /\ pc = "m_check"
  /\ data' = <<>> /\ len' = 0
  /\ \/ /\ sfc.kind = "image"
        /\ pc' = "m_calloc"
        /\ UNCHANGED <<sfc, other, mret, ret, e>>
     \/ /\ sfc.kind = "other"
        /\ sfc' = [sfc EXCEPT !.kind = "image"]
        /\ other' = TRUE
        /\ pc' = "m_calloc"
        /\ UNCHANGED <<mret, ret, e>>
     \/ /\ sfc.kind = "other"
        /\ MemReturn("INVALID_FORMAT")
        /\ UNCHANGED <<sfc, other>>
  /\ UNCHANGED <<entry, colors, ncols, cpp, xpmsize, xbuf, pos, size, x, y, i,
                 wcalls, wdata, freed, file, fdopen, closes, outfile, cbret,
                 sret, trans>>

\* lines 158-169: flush, calloc(MAX_COL + 1, ...), ncols = 0
MemCalloc ==
  /\ pc = "m_calloc"
  /\ \/ /\ colors' = NoTable
        /\ ncols' = 0 /\ x' = 0 /\ y' = 0
        /\ pc' = "m_scan"
        /\ UNCHANGED <<mret, ret, e>>
     \/ /\ MemReturn("NO_MEMORY")
        /\ UNCHANGED <<colors, ncols, x, y>>
  /\ UNCHANGED <<sfc, other, entry, cpp, xpmsize, xbuf, pos, size, i, data, len,
                 wcalls, wdata, freed, file, fdopen, closes, outfile, cbret,
                 sret, trans>>

\* lines 170-180: one step of the palette pass
MemScan ==
  /\ pc = "m_scan"
  /\ IF y < sfc.h
     THEN IF x < sfc.w
          THEN LET col == PixelKey(get_argb24_pixel(sfc, x, y))
               IN  /\ IF ColorsAt(colors, col) = 0
                      THEN /\ ncols' = ncols + 1
                           /\ colors' = [k \in DOMAIN colors \cup {col} |->
                                           IF k = col THEN ncols + 1 ELSE colors[k]]
                      ELSE UNCHANGED <<ncols, colors>>
                   /\ x' = x + 1
                   /\ UNCHANGED <<y, pc>>
          ELSE /\ y' = y + 1 /\ x' = 0
               /\ UNCHANGED <<ncols, colors, pc>>
     ELSE /\ pc' = "m_size"
          /\ UNCHANGED <<ncols, colors, x, y>>
  /\ UNCHANGED <<sfc, other, entry, cpp, xpmsize, xbuf, pos, size, i, data, len,
                 e, wcalls, wdata, freed, file, fdopen, closes, outfile, mret,
                 cbret, sret, ret, trans>>

\* lines 182-183: cpp and xpmsize
MemSize ==
  /\ pc = "m_size"
  /\ cpp' = num_chars_per_pixel(ncols)
  /\ \E r \in xpm_size(sfc.w, sfc.h, ncols, cpp') :
        /\ xpmsize' = r.val
        /\ pc' = IF r.trap THEN "aborted" ELSE "m_malloc"
  /\ UNCHANGED <<sfc, other, entry, colors, ncols, xbuf, pos, size, x, y, i,
                 data, len, e, wcalls, wdata, freed, file, fdopen, closes,
                 outfile, mret, cbret, sret, ret, trans>>

\* lines 185-191: malloc(xpmsize)
MemMalloc ==
  /\ pc = "m_malloc"
  /\ \/ /\ pc' = "m_header"
        /\ UNCHANGED <<mret, ret, e, colors>>
     \/ /\ MemReturn("NO_MEMORY")
        /\ colors' = NoTable
  /\ UNCHANGED <<sfc, other, entry, ncols, cpp, xpmsize, xbuf, pos, size, x, y,
                 i, data, len, wcalls, wdata, freed, file, fdopen, closes,
                 outfile, cbret, sret, trans>>

\* lines 193-200: pos = 0, size = xpmsize, the header
MemHeader ==
  /\ pc = "m_header"
  /\ LET text == HeaderText(sfc.w, sfc.h, ncols, cpp)
     IN  /\ xbuf' = Snprintf(text, xpmsize)
         /\ pos' = Len(text)
         /\ size' = xpmsize - Len(text)
  /\ i' = 0
  /\ pc' = "m_ctbl"
  /\ UNCHANGED <<sfc, other, entry, colors, ncols, cpp, xpmsize, x, y, data,
                 len, e, wcalls, wdata, freed, file, fdopen, closes, outfile,
                 mret, cbret, sret, ret, trans>>

\* a colour table written in palette-index order instead
MemColorTableByIndex ==
  /\ pc = "m_ctbl"
  /\ IF i < ncols
     THEN LET k == CHOOSE c \in DOMAIN colors : colors[c] = i + 1
          IN  /\ Emit(ColorLineText(k, colors[k], cpp))
              /\ i' = i + 1
              /\ UNCHANGED <<pc, x, y>>
     ELSE /\ i' = MAX_COL + 1
          /\ y' = 0 /\ x' = 0
          /\ pc' = "m_rows"
          /\ UNCHANGED <<xbuf, pos, size>>
  /\ UNCHANGED <<sfc, other, entry, colors, ncols, cpp, xpmsize, data, len, e,
                 wcalls, wdata, freed, file, fdopen, closes, outfile, mret,
                 cbret, sret, ret, trans>>

\* lines 204-215: the loop runs on to the next used slot and writes its line
MemColorTable ==
  /\ pc = "m_ctbl"
  /\ LET k == NextColorKey(colors, i)
     IN  IF k <= MAX_COL
         THEN /\ Emit(ColorLineText(k, colors[k], cpp))
              /\ i' = k + 1
              /\ UNCHANGED <<pc, x, y>>
         ELSE /\ i' = MAX_COL + 1
              /\ y' = 0 /\ x' = 0
              /\ pc' = "m_rows"
              /\ UNCHANGED <<xbuf, pos, size>>
  /\ UNCHANGED <<sfc, other, entry, colors, ncols, cpp, xpmsize, data, len, e,
                 wcalls, wdata, freed, file, fdopen, closes, outfile, mret,
                 cbret, sret, ret, trans>>

\* lines 218-222: the head of the row loop
MemRow ==
  /\ pc = "m_rows"
  /\ IF y < sfc.h
     THEN /\ Emit(RowOpenText)
          /\ x' = 0
          /\ pc' = "m_pix"
     ELSE /\ pc' = "m_footer"
          /\ UNCHANGED <<xbuf, pos, size, x>>
  /\ UNCHANGED <<sfc, other, entry, colors, ncols, cpp, xpmsize, y, i, data, len,
                 e, wcalls, wdata, freed, file, fdopen, closes, outfile, mret,
                 cbret, sret, ret, trans>>

\* lines 223-236: one pixel of the row, or the closing quote
MemPixel ==
  /\ pc = "m_pix"
  /\ IF x < sfc.w
     THEN LET col == PixelKey(get_argb24_pixel(sfc, x, y))
          IN  /\ xbuf' = xbuf \o col_encode_base64(ColorsAt(colors, col) - 1, cpp)
              /\ pos' = pos + cpp
              /\ size' = size - cpp
              /\ x' = x + 1
              /\ UNCHANGED <<y, pc>>
     ELSE /\ Emit(RowCloseText)
          /\ y' = y + 1
          /\ pc' = "m_rows"
          /\ x' = x
  /\ UNCHANGED <<sfc, other, entry, colors, ncols, cpp, xpmsize, i, data, len,
                 e, wcalls, wdata, freed, file, fdopen, closes, outfile, mret,
                 cbret, sret, ret, trans>>

\* lines 239-252: the closing marker, free(colors), *len, *data, return
MemFooter ==
  /\ pc = "m_footer"
  /\ Emit(FooterText)
  /\ colors' = NoTable
  /\ len' = pos'
  /\ data' = xbuf'
  /\ MemReturn("SUCCESS")
  /\ UNCHANGED <<sfc, other, entry, ncols, cpp, xpmsize, x, y, i, wcalls, wdata,
                 freed, file, fdopen, closes, outfile, cbret, sret, trans>>

(***************************************************************************)
(* cairo_image_surface_write_to_xpm_stream                                 *)
(***************************************************************************)
\* "return st" of the stream function: back to its caller
StreamReturn(st) ==
  /\ sret' = st
  /\ IF entry = "stream"
     THEN /\ ret' = st /\ pc' = "done"
     ELSE /\ ret' = ret /\ pc' = "f_close"

\* lines 285-286: the result of the to-memory call
StreamCheckFallThrough ==
  /\ pc = "s_check"
  /\ pc' = "s_write"
  /\ UNCHANGED <<sfc, other, entry, colors, ncols, cpp, xpmsize, xbuf, pos, size,
                 x, y, i, data, len, e, wcalls, wdata, freed, file, fdopen,
                 closes, outfile, mret, cbret, sret, ret, trans>>

StreamCheck ==
  /\ pc = "s_check"
  /\ IF e # "SUCCESS"
     THEN StreamReturn(e)
     ELSE /\ pc' = "s_write"
          /\ UNCHANGED <<sret, ret>>
  /\ UNCHANGED <<sfc, other, entry, colors, ncols, cpp, xpmsize, xbuf, pos, size,
                 x, y, i, data, len, e, wcalls, wdata, freed, file, fdopen,
                 closes, outfile, mret, cbret, trans>>

\* cj_write, lines 259-263: write() stores n bytes at the file offset (0 after
\* open) and returns n, or stores nothing and returns -1
WriteResults(length) == {-1, 0, length \div 2, length}

FileAfterWrite(f, bytes, n) ==
  IF n <= 0 THEN f
  ELSE [f EXCEPT !.content =
          SubSeq(bytes, 1, n) \o SubSeq(f.content, n + 1, Len(f.content))]

cj_write_status(n, length) ==
  IF n < length THEN "WRITE_ERROR" ELSE "SUCCESS"

\* line 289: e = write_func(closure, data, len)
StreamWrite ==
  /\ pc = "s_write"
  /\ wcalls' = wcalls + 1
  /\ wdata' = SubSeq(data, 1, len)
  /\ \/ /\ entry = "file"
        /\ \E n \in WriteResults(len) :
              /\ file' = FileAfterWrite(file, data, n)
              /\ cbret' = cj_write_status(n, len)
     \/ /\ entry = "stream"
        /\ cbret' \in {"SUCCESS", "WRITE_ERROR"}
        /\ file' = file
  /\ e' = cbret'
  /\ pc' = "s_free"
  /\ UNCHANGED <<sfc, other, entry, colors, ncols, cpp, xpmsize, xbuf, pos, size,
                 x, y, i, data, len, freed, fdopen, closes, outfile, mret, sret,
                 ret, trans>>

\* lines 292-293: free(data); return e
StreamFree ==
  /\ pc = "s_free"
  /\ freed' = TRUE
  /\ StreamReturn(e)
  /\ UNCHANGED <<sfc, other, entry, colors, ncols, cpp, xpmsize, xbuf, pos, size,
                 x, y, i, data, len, e, wcalls, wdata, file, fdopen, closes,
                 outfile, mret, cbret, trans>>

(***************************************************************************)
(* cairo_image_surface_write_to_xpm, lines 319-323: e = stream's status,   *)
(* close(outfile), return e                                                *)
(***************************************************************************)
FileCloseLeaky ==
  /\ pc = "f_close"
  /\ IF sret = "SUCCESS"
     THEN closes' = closes + 1 /\ fdopen' = FALSE
     ELSE UNCHANGED <<closes, fdopen>>
  /\ ret' = sret
  /\ pc' = "done"
  /\ UNCHANGED <<sfc, other, entry, colors, ncols, cpp, xpmsize, xbuf, pos, size,
                 x, y, i, data, len, e, wcalls, wdata, freed, file, outfile,
                 mret, cbret, sret, trans>>

FileClose ==
  /\ pc = "f_close"
  /\ closes' = closes + 1
  /\ fdopen' = FALSE
  /\ ret' = sret
  /\ pc' = "done"
  /\ UNCHANGED <<sfc, other, entry, colors, ncols, cpp, xpmsize, xbuf, pos, size,
                 x, y, i, data, len, e, wcalls, wdata, freed, file, outfile,
                 mret, cbret, sret, trans>>

Next ==
  \/ CallMem \/ CallStream \/ CallFile
  \/ FileOpen
  \/ MemCheck \/ MemCalloc \/ MemScan \/ MemSize \/ MemMalloc \/ MemHeader
  \/ MemColorTable \/ MemRow \/ MemPixel \/ MemFooter
  \/ StreamCheck \/ StreamWrite \/ StreamFree
  \/ FileClose

Spec == Init /\ [][Next]_vars

(***************************************************************************)
(* SpecSize: the same function over large images.  The pixels are not      *)
(* enumerated: the palette pass is replaced by its possible results (any   *)
(* palette size the pass can reach for the geometry), and each writer loop *)
(* by the number of bytes it produces.  Here pos is kept exact, in limbs:  *)
(* the number of bytes of the document so far.                             *)
(***************************************************************************)
SizeDims == {0, 1, 2, 8, 64, 4096, 32767}

PaletteSizes ==
  {0, 1, 2, 3, 63, 64, 65, 4095, 4096, 4097, 262143, 262144, 262145,
   MAX_COL - 1, MAX_COL, MAX_COL + 1}

\* lines 168-180 leave 1 <= ncols <= min(w * h, MAX_COL + 1) for a non-empty image
PaletteOutcomes(w, h) ==
  {p \in [ncols : PaletteSizes, trans : BOOLEAN] :
     /\ BigLE(Big(p.ncols), BigMul(Big(w), Big(h)))
     /\ (p.ncols = 0) = (w = 0 \/ h = 0)
     /\ p.trans => p.ncols >= 1
     /\ p.ncols = MAX_COL + 1 => p.trans}

InitSize ==
  /\ sfc \in [kind : {"image"}, w : SizeDims, h : SizeDims, pix : {<<>>}]
  /\ other = FALSE
  /\ entry = "mem"
  /\ pc = "z_scan"
  /\ colors = NoTable
  /\ ncols = 0 /\ cpp = 0 /\ xpmsize = 0
  /\ xbuf = <<>> /\ pos = Big(0) /\ size = 0
  /\ x = 0 /\ y = 0 /\ i = 0
  /\ data = <<>> /\ len = 0
  /\ e = "none"
  /\ wcalls = 0 /\ wdata = <<>> /\ freed = FALSE
  /\ file = [exists |-> FALSE, content |-> <<>>]
  /\ fdopen = FALSE /\ closes = 0 /\ outfile = 0
  /\ mret = "none" /\ cbret = "none" /\ sret = "none" /\ ret = "none"
  /\ trans = FALSE

SzScan ==
  /\ pc = "z_scan"
  /\ \E p \in PaletteOutcomes(sfc.w, sfc.h) :
        /\ ncols' = p.ncols
        /\ trans' = p.trans
  /\ pc' = "z_size"
  /\ UNCHANGED <<sfc, other, entry, colors, cpp, xpmsize, xbuf, pos, size, x, y,
                 i, data, len, e, wcalls, wdata, freed, file, fdopen, closes,
                 outfile, mret, cbret, sret, ret>>

\* lines 182-183
SzSize ==
  /\ pc = "z_size"
  /\ cpp' = num_chars_per_pixel(ncols)
  /\ \E r \in xpm_size(sfc.w, sfc.h, ncols, cpp') :
        /\ xpmsize' = r.val
        /\ pc' = IF r.trap THEN "aborted" ELSE "z_malloc"
  /\ UNCHANGED <<sfc, other, entry, colors, ncols, xbuf, pos, size, x, y, i,
                 data, len, e, wcalls, wdata, freed, file, fdopen, closes,
                 outfile, mret, cbret, sret, ret, trans>>

\* lines 185-191
SzMalloc ==
  /\ pc = "z_malloc"
  /\ \/ /\ pc' = "z_header"
        /\ UNCHANGED <<mret, ret>>
     \/ /\ mret' = "NO_MEMORY" /\ ret' = "NO_MEMORY"
        /\ pc' = "done"
  /\ UNCHANGED <<sfc, other, entry, colors, ncols, cpp, xpmsize, xbuf, pos, size,
                 x, y, i, data, len, e, wcalls, wdata, freed, file, fdopen,
                 closes, outfile, cbret, sret, trans>>

\* lines 193-200
SzHeader ==
  /\ pc = "z_header"
  /\ pos' = Big(Len(HeaderText(sfc.w, sfc.h, ncols, cpp)))
  /\ pc' = "z_ctbl"
  /\ UNCHANGED <<sfc, other, entry, colors, ncols, cpp, xpmsize, xbuf, size, x,
                 y, i, data, len, e, wcalls, wdata, freed, file, fdopen, closes,
                 outfile, mret, cbret, sret, ret, trans>>

\* the bytes of the lines 204-215 write for a palette of nc entries
ColorTableBytes(nc, tr, n) ==
  LET opaque == Len(ColorLineText(0, 1, n))
      none == Len(ColorLineText(MAX_COL, 1, n))
  IN  IF tr THEN BigAdd(BigMul(Big(nc - 1), Big(opaque)), Big(none))
      ELSE BigMul(Big(nc), Big(opaque))

\* col_encode_base64(cb, ...) with char cb[5] stores n + 1 bytes
CbOverrun(nc, n) == nc > 0 /\ n + 1 > CB_SIZE

\* lines 203-215; writing past cb is undefined: the call goes on or the
\* process is stopped (stack protector)
SzColorTable ==
  /\ pc = "z_ctbl"
  /\ pos' = BigAdd(pos, ColorTableBytes(ncols, trans, cpp))
  /\ pc' \in (IF CbOverrun(ncols, cpp) THEN {"z_rows", "aborted"} ELSE {"z_rows"})
  /\ UNCHANGED <<sfc, other, entry, colors, ncols, cpp, xpmsize, xbuf, size, x,
                 y, i, data, len, e, wcalls, wdata, freed, file, fdopen, closes,
                 outfile, mret, cbret, sret, ret, trans>>

\* the bytes the lines 218-237 write
PixelTableBytes(w, h, n) ==
  BigMul(Big(h),
         BigAdd(BigMul(Big(w), Big(n)), Big(Len(RowOpenText) + Len(RowCloseText))))

SzPixelTable ==
  /\ pc = "z_rows"
  /\ pos' = BigAdd(pos, PixelTableBytes(sfc.w, sfc.h, cpp))
  /\ pc' = "z_footer"
  /\ UNCHANGED <<sfc, other, entry, colors, ncols, cpp, xpmsize, xbuf, size, x,
                 y, i, data, len, e, wcalls, wdata, freed, file, fdopen, closes,
                 outfile, mret, cbret, sret, ret, trans>>

\* lines 239-252
SzFooter ==
  /\ pc = "z_footer"
  /\ pos' = BigAdd(pos, Big(Len(FooterText)))
  /\ mret' = "SUCCESS" /\ ret' = "SUCCESS"
  /\ pc' = "done"
  /\ UNCHANGED <<sfc, other, entry, colors, ncols, cpp, xpmsize, xbuf, size, x,
                 y, i, data, len, e, wcalls, wdata, freed, file, fdopen, closes,
                 outfile, cbret, sret, trans>>

NextSize ==
  \/ SzScan \/ SzSize \/ SzMalloc \/ SzHeader \/ SzColorTable \/ SzPixelTable
  \/ SzFooter

SpecSize == InitSize /\ [][NextSize]_vars

(***************************************************************************)
(* Reading a document back, and the specification's own notions, for the   *)
(* properties below.                                                       *)
(***************************************************************************)
\* the elements of a finite set of integers in ascending order
SortSet(S) ==
  LET rk == [a \in S |-> Cardinality({b \in S : b < a})]
  IN  [r \in 1..Cardinality(S) |-> CHOOSE a \in S : rk[a] = r - 1]

\* the positions of the quote characters of d, in ascending order
QuotePositions(d) ==
  LET Q == {k \in 1..Len(d) : d[k] = "\""}
      before == [k \in 1..Len(d) |-> Cardinality({j \in Q : j < k})]
  IN  [r \in 1..Cardinality(Q) |-> CHOOSE k \in Q : before[k] = r - 1]

\* the quoted strings of a document, in order
DocLines(d) ==
  LET q == QuotePositions(d)
  IN  [k \in 1..(Len(q) \div 2) |-> SubSeq(d, q[2 * k - 1] + 1, q[2 * k] - 1)]

\* the number a symbol string denotes, most significant symbol first
AlphabetPos(ch) == CHOOSE k \in 0..63 : ctbl[k + 1] = ch

RECURSIVE Decode(_)
Decode(g) ==
  IF Len(g) = 0 THEN 0
  ELSE Decode(SubSeq(g, 1, Len(g) - 1)) * 64 + AlphabetPos(g[Len(g)])

IsSymbols(g) == \A k \in 1..Len(g) : \E j \in 1..64 : ctbl[j] = g[k]

\* the Color of a pixel: TRANSPARENT (kept as 2^24) or its RGB bits
TRANSPARENT == MAX_COL
AlphaOf(p) == IF p >= 0 THEN p \div 16777216 ELSE 256 + (p \div 16777216)
RgbOf(p) == p - (p \div 16777216) * 16777216
ColorOf(p) == IF AlphaOf(p) < 128 THEN TRANSPARENT ELSE RgbOf(p)

\* the Colors of the pixels in row-major order, top row first and each row
\* left to right: pixel (px, py) is element py * W + px + 1
ScanColors == [k \in 1..(sfc.w * sfc.h) |-> ColorOf(sfc.pix[k])]
ScanPlace(px, py) == py * sfc.w + px + 1
ImageColors == {ColorOf(sfc.pix[k]) : k \in 1..(sfc.w * sfc.h)}

\* the palette index of the Color at each place of the scan: the number of
\* first occurrences up to the first occurrence of that Color
PaletteIndexAt ==
  LET sc == ScanColors
      isFirst == [k \in 1..Len(sc) |-> \A j \in 1..(k - 1) : sc[j] # sc[k]]
      firstOf == [k \in 1..Len(sc) |->
                    CHOOSE j \in 1..k : sc[j] = sc[k] /\ isFirst[j]]
  IN  [k \in 1..Len(sc) |-> Cardinality({j \in 1..firstOf[k] : isFirst[j]})]

ColorText(c) ==
  IF c = TRANSPARENT THEN <<" ","c"," ","N","o","n","e">>
  ELSE <<" ","c"," ","#">> \o col_encode_html(c)

\* the palette pass is over and the table not yet used
PalettePassDone == pc = "m_size"

\* to-memory has returned its document to the caller
DocReturned == entry = "mem" /\ pc = "done" /\ ret = "SUCCESS"

ZeroArea == sfc.w = 0 \/ sfc.h = 0

(***************************************************************************)
(* The two specifications agree: what SpecSize assumes of the palette pass *)
(* and counts for the writer is what Spec's stepwise code produces.        *)
(***************************************************************************)
\* the palette pass ends in one of the outcomes SpecSize draws from
ScanOutcomeSound ==
  pc = "m_size" =>
    /\ BigLE(Big(ncols), BigMul(Big(sfc.w), Big(sfc.h)))
    /\ (ncols = 0) = (sfc.w = 0 \/ sfc.h = 0)
    /\ ncols <= MAX_COL + 1

\* every snprintf had room (nothing was truncated) and pos is the length
\* of the text, which is the byte count SpecSize adds up
WriterCountSound ==
  /\ pc \in {"m_ctbl", "m_rows", "m_pix", "m_footer"} => size >= 1 /\ Len(xbuf) = pos
  /\ pc = "done" /\ mret = "SUCCESS" =>
       /\ size >= 1
       /\ Len(xbuf) = pos
       /\ Big(pos) =
            BigAdd(BigAdd(BigAdd(Big(Len(HeaderText(sfc.w, sfc.h, ncols, cpp))),
                                 ColorTableBytes(ncols, TRANSPARENT \in ImageColors, cpp)),
                          PixelTableBytes(sfc.w, sfc.h, cpp)),
                   Big(Len(FooterText)))

(***************************************************************************)
(* C1.  Original statement: the k-th colour-table line is the line of the  *)
(* palette entry with index k (its symbol field encodes k - 1).            *)
(***************************************************************************)
C1_TableInIndexOrder ==
  DocReturned =>
    LET L == DocLines(data)
    IN  \A k \in 1..ncols : Decode(SubSeq(L[k + 1], 1, cpp)) = k - 1

(***************************************************************************)
(* C1, amended: the colour-table lines appear in ascending order of the    *)
(* colour value (RGB ascending, the transparent entry last); the k-th line *)
(* carries the symbol of that Color's palette index minus one, followed by *)
(* its colour text.                                                        *)
(***************************************************************************)
C1_TableInColorOrder ==
  DocReturned =>
    LET L == DocLines(data)
        keys == SortSet(ImageColors)
        sc == ScanColors
        idx == PaletteIndexAt
    IN  /\ Len(keys) = ncols
        /\ Len(L) = 1 + ncols + sfc.h
        /\ \A k \in 1..ncols :
             /\ k > 1 => keys[k - 1] < keys[k]
             /\ Len(L[k + 1]) = cpp + Len(ColorText(keys[k]))
             /\ IsSymbols(SubSeq(L[k + 1], 1, cpp))
             /\ \E j \in 1..Len(sc) :
                  /\ sc[j] = keys[k]
                  /\ Decode(SubSeq(L[k + 1], 1, cpp)) = idx[j] - 1
             /\ SubSeq(L[k + 1], cpp + 1, Len(L[k + 1])) = ColorText(keys[k])

C1_Witness ==
  /\ DocReturned /\ ncols = 3 /\ sfc.h = 2
  /\ ColorOf(sfc.pix[1]) = 16711680 /\ ColorOf(sfc.pix[2]) = TRANSPARENT

(***************************************************************************)
(* C2.  Original statement: the symbol width is the least number of 6-bit  *)
(* symbols that represents the largest 0-based index ncols - 1 (64 colours *)
(* get width 1).                                                           *)
(***************************************************************************)
WidthComputed == pc \in {"z_malloc", "z_header", "z_ctbl", "z_rows", "z_footer", "done"}

C2_MinimalForLargestIndex ==
  WidthComputed =>
    cpp = (IF ncols = 0 THEN 0
           ELSE CHOOSE n \in 1..5 :
                  /\ 64 ^ n > ncols - 1
                  /\ \A m \in 1..(n - 1) : 64 ^ m <= ncols - 1)

(***************************************************************************)
(* C2, amended: the symbol width is the least number of 6-bit symbols that *)
(* represents the palette size itself (ceil(bitlength(ncols) / 6)): 63     *)
(* colours get width 1 and the width is 2 from 64 colours on.              *)
(***************************************************************************)
C2_MinimalForPaletteSize ==
  WidthComputed =>
    /\ cpp \in 0..5
    /\ 64 ^ cpp > ncols
    /\ \A m \in 0..(cpp - 1) : 64 ^ m <= ncols

C2_Witness == pc = "z_malloc" /\ ncols = 64 /\ cpp = 2

(***************************************************************************)
(* C3.  The buffer size computed by xpm_size (as malloc receives it) is at *)
(* least the number of bytes the writer has produced, terminator included. *)
(***************************************************************************)
C3_BufferCoversOutput ==
  pc \in {"z_ctbl", "z_rows", "z_footer", "done"} /\ mret # "NO_MEMORY" =>
    AllocCovers(xpmsize, BigAdd(pos, Big(1)))

(***************************************************************************)
(* C4.  Original statement: a zero-area image yields a document whose      *)
(* header reports palette size 0 and symbol width 0 and that has no        *)
(* colour-table line and no pixel-row line.                                *)
(***************************************************************************)
ZeroHeader ==
  <<DecDigits[sfc.w + 1], " ", DecDigits[sfc.h + 1], " ", "0", " ", "0">>

C4_ZeroAreaNoRows ==
  ZeroArea /\ DocReturned =>
    LET L == DocLines(data)
    IN  Len(L) = 1 /\ L[1] = ZeroHeader

(***************************************************************************)
(* C4, amended: for a zero-area image to-memory fails only when the        *)
(* conversion or an allocation fails; otherwise it returns success with a  *)
(* document whose header reports palette size 0 and symbol width 0, with   *)
(* no colour-table line and with H pixel-row lines, all empty (so none     *)
(* when H = 0).                                                            *)
(***************************************************************************)
C4_ZeroAreaEmptyRows ==
  ZeroArea =>
    /\ mret \in {"none", "SUCCESS", "INVALID_FORMAT", "NO_MEMORY"}
    /\ pc \in {"m_header", "m_ctbl", "m_rows", "m_pix", "m_footer"} =>
         ncols = 0 /\ cpp = 0
    /\ entry = "mem" /\ pc = "done" => ret \in {"SUCCESS", "INVALID_FORMAT", "NO_MEMORY"}
    /\ DocReturned =>
         LET L == DocLines(data)
         IN  /\ Len(L) = 1 + sfc.h
             /\ L[1] = ZeroHeader
             /\ \A k \in 2..Len(L) : L[k] = <<>>
             /\ SubSeq(data, Len(data) - 3, Len(data)) = <<"\n", "}", ";", "\n">>

C4_Witness == DocReturned /\ sfc.w = 0 /\ sfc.h = 2

(***************************************************************************)
(* C5.  After the palette pass the table maps exactly the Colors of the    *)
(* image (TRANSPARENT iff alpha < 0x80, else the RGB bits), each to its    *)
(* rank in first-occurrence order of the row-major scan from 1; the        *)
(* indices are 1..ncols without repetition and ncols <= min(W*H, 2^24+1).  *)
(***************************************************************************)
C5_PaletteFirstOccurrence ==
  PalettePassDone =>
    LET sc == ScanColors
        idx == PaletteIndexAt
    IN  /\ DOMAIN colors = ImageColors
        /\ \A k \in 1..Len(sc) : colors[sc[k]] = idx[k]
        /\ {colors[c] : c \in DOMAIN colors} = 1..ncols
        /\ \A c, d \in DOMAIN colors : colors[c] = colors[d] => c = d
        /\ ncols <= sfc.w * sfc.h
        /\ ncols <= MAX_COL + 1

C5_Witness ==
  /\ pc = "m_size" /\ sfc.w = 2 /\ sfc.h = 2 /\ ncols = 3
  /\ ColorsAt(colors, TRANSPARENT) = 2
  /\ ColorOf(sfc.pix[3]) = TRANSPARENT

(***************************************************************************)
(* C6.  Every pixel-row line has exactly W * cpp symbol characters; its    *)
(* x-th group of cpp characters denotes, most significant symbol first,    *)
(* the palette index minus one of the Color of pixel (x, y), and is the    *)
(* symbol field of that Color's colour-table line.                         *)
(***************************************************************************)
C6_RowsEncodePixels ==
  DocReturned =>
    LET L == DocLines(data)
        sc == ScanColors
        idx == PaletteIndexAt
        Row(py) == L[1 + ncols + py + 1]
        Group(px, py) == SubSeq(Row(py), px * cpp + 1, (px + 1) * cpp)
    IN  /\ Len(L) = 1 + ncols + sfc.h
        /\ \A py \in 0..(sfc.h - 1) :
             /\ Len(Row(py)) = sfc.w * cpp
             /\ IsSymbols(Row(py))
             /\ \A px \in 0..(sfc.w - 1) :
                  /\ Decode(Group(px, py)) = idx[ScanPlace(px, py)] - 1
                  /\ \E k \in 2..(1 + ncols) :
                       L[k] = Group(px, py) \o ColorText(sc[ScanPlace(px, py)])

C6_Witness == DocReturned /\ cpp = 2 /\ sfc.w >= 64 /\ Len(data) > 64 * 16

C8_FileClosedOnce ==
  /\ closes <= 1
  /\ fdopen => closes = 0
  /\ closes = 1 => sret # "none" /\ pc = "done"
  /\ entry = "file" /\ pc = "done" =>
       IF outfile = -1
       THEN /\ ret = "DEVICE_ERROR" /\ mret = "none" /\ xbuf = <<>>
            /\ wcalls = 0 /\ closes = 0 /\ ~fdopen /\ file \in PriorFiles
       ELSE /\ outfile = 3 /\ closes = 1 /\ ~fdopen
            /\ ret = sret
            /\ sret \in {"SUCCESS", "WRITE_ERROR", "INVALID_FORMAT", "NO_MEMORY"}

C8_Witness ==
  entry = "file" /\ pc = "done" /\ closes = 1 /\ ret = "NO_MEMORY" /\ wcalls = 0

(***************************************************************************)
(* C9.  The symbol string of a colour-table entry and its terminator       *)
(* (cpp + 1 bytes) fit the 5-byte buffer cb, for every palette size the    *)
(* palette pass can produce.                                               *)
(***************************************************************************)
C9_SymbolFitsScratch ==
  pc = "z_ctbl" /\ ncols > 0 => cpp + 1 <= CB_SIZE

(***************************************************************************)
(* C10.  After the file function returned success the file holds exactly   *)
(* the bytes of the document, whatever it held before.                     *)
(***************************************************************************)
C10_FileHoldsDocument ==
  entry = "file" /\ pc = "done" /\ ret = "SUCCESS" =>
    /\ wdata = xbuf
    /\ file.exists
    /\ file.content = wdata

====
